---- MODULE Spec2Model ----
(***************************************************************************)
(* A model of src/pretrain_IJEPA.py: the image dataset and its data        *)
(* module, and the IJEPA LightningModule driven by the trainer's fit,      *)
(* validation and predict loops.                                           *)
(*                                                                         *)
(* Numbers.  The momentum coefficient and the encoder parameters are       *)
(* Python floats; they are modelled as exact rationals <<n, d>> (d > 0,    *)
(* lowest terms), so that m*teacher + (1-m)*student and the increment      *)
(* (m_end - m_start) / estimated_stepping_batches are computed, not        *)
(* assumed.  Scales and aspect ratios are kept in hundredths.              *)
(***************************************************************************)
EXTENDS Integers, Sequences, FiniteSets, TLC

(***************************** bounds **************************************)
\* the largest trainer.estimated_stepping_batches of a modelled run
MaxSteps == 3
\* the largest number of target blocks M a model is constructed with
MaxM == 2
\* the largest number of files in a dataset directory
MaxFiles == 2

(************************* rational arithmetic *****************************)
Abs(x) == IF x < 0 THEN -x ELSE x

RECURSIVE GCD(_, _)
GCD(a, b) == IF b = 0 THEN a ELSE GCD(b, a % b)

Norm(n, d) ==
    LET g == GCD(Abs(n), d)
    IN  <<n \div g, d \div g>>

Rat(n, d) == Norm(n, d)
RAdd(a, b) == Norm(a[1] * b[2] + b[1] * a[2], a[2] * b[2])
RSub(a, b) == Norm(a[1] * b[2] - b[1] * a[2], a[2] * b[2])
RMul(a, b) == Norm(a[1] * b[1], a[2] * b[2])
RDivInt(a, k) == Norm(a[1], a[2] * k)
RLe(a, b) == a[1] * b[2] <= b[1] * a[2]
RLt(a, b) == a[1] * b[2] < b[1] * a[2]
RAbs(a) == <<Abs(a[1]), a[2]>>
Zero == Rat(0, 1)
One == Rat(1, 1)

(************************ constructor arguments ****************************)
\* the values the float arguments m and m_start_end are drawn from; the three
\* arguments are independent, as in the constructor, which relates none of them
MomentumValues == {Rat(0, 1), Rat(1, 2), Rat(1, 1)}

\* IJEPA.__init__ defaults, in hundredths
target_aspect_ratio == <<75, 150>>
target_scale == <<15, 20>>
context_aspect_ratio == 100
context_scale == <<85, 100>>

\* np.random.uniform(lo, hi): a value of [lo, hi); two sample points
Uniform(range) == {range[1], (range[1] + range[2]) \div 2}

\* the two encoders' parameters, one rational per parameter tensor
ParamIds == {1, 2}
InitStudent == [i \in ParamIds |-> Rat(2 * i, 1)]
InitTeacher == [i \in ParamIds |-> Rat(1 - i, 1)]

\* the displacement the optimizer applies to a parameter that has a gradient
Grads == {Rat(-1, 1), Rat(1, 1)}

(***************************** dataset *************************************)
\* file names by their suffix; only the suffix decides load_images
Suffixes == {".jpeg", ".JPEG", ".png"}

\* str.lower() on the suffixes
Lower(s) == IF s = ".JPEG" THEN ".jpeg" ELSE s

\* the directories a dataset path may name: the files os.walk yields, in order
Directories == UNION {[1..n -> Suffixes] : n \in 0..MaxFiles}

RECURSIVE load_images(_)
load_images(files) ==
    IF files = <<>> THEN <<>>
    ELSE LET rest == load_images(Tail(files))
         IN  IF Lower(Head(files)) = ".jpeg"
             THEN <<Head(files)>> \o rest
             ELSE rest

\* IJEPADataset(dataset_path): the object constructed; it never raises
IJEPADataset(files) == [data |-> load_images(files), error |-> FALSE]

\* IJEPADataset.__len__
DatasetLen(ds) == Len(ds.data)

None == [data |-> <<>>, error |-> FALSE, unset |-> TRUE]

VARIABLES
    \* D2VDataModule
    train_dataset_path, val_dataset_path, batch_size, train_dataset, val_dataset,
    served,
    \* IJEPA hyperparameters and trainer
    hparams, estimated_stepping_batches,
    \* IJEPA state
    m, student, teacher, eval_mode, mode,
    \* trainer loop
    pc, global_step, last_epoch, grads,
    \* observations
    order, last, predicted

datavars == <<train_dataset_path, val_dataset_path, batch_size, train_dataset,
              val_dataset, served>>
modelvars == <<hparams, estimated_stepping_batches, m, student, teacher, eval_mode,
               mode, pc, global_step, last_epoch, grads, order, last, predicted>>
vars == <<datavars, modelvars>>


(************************** D2VDataModule **********************************)
\* D2VDataModule.setup: both datasets are constructed, whatever they hold
setup ==
    /\ train_dataset = None
    /\ train_dataset' = IJEPADataset(train_dataset_path)
    /\ val_dataset' = IJEPADataset(val_dataset_path)
    /\ UNCHANGED <<train_dataset_path, val_dataset_path, batch_size, served>>
    /\ UNCHANGED modelvars

Min(a, b) == IF a <= b THEN a ELSE b

\* D2VDataModule.train_dataloader: the next batch of at most batch_size samples
train_dataloader ==
    /\ train_dataset # None
    /\ served.train < DatasetLen(train_dataset)
    /\ served' = [served EXCEPT
                    !.train = Min(DatasetLen(train_dataset), @ + batch_size)]
    /\ UNCHANGED <<train_dataset_path, val_dataset_path, batch_size, train_dataset,
                   val_dataset>>
    /\ UNCHANGED modelvars

\* D2VDataModule.val_dataloader: the next batch of at most batch_size samples
val_dataloader ==
    /\ val_dataset # None
    /\ served.val < DatasetLen(val_dataset)
    /\ served' = [served EXCEPT
                    !.val = Min(DatasetLen(val_dataset), @ + batch_size)]
    /\ UNCHANGED <<train_dataset_path, val_dataset_path, batch_size, train_dataset,
                   val_dataset>>
    /\ UNCHANGED modelvars

(****************************** IJEPA **************************************)
Groups == {"student", "teacher"}

\* torch.optim.AdamW(self.parameters(), ...): every parameter of the module
OptimizerParams == Groups

\* variant: the teacher encoder is not kept out of the loss's graph
GradTargets_teacher_too == {"student", "teacher"}

\* the parameter groups backpropagation leaves a gradient on
GradTargets == {"student"}

NoGrad == <<0, 0>>
NoGrads == [g \in Groups |-> NoGrad]

NoCall == [op |-> "none", mode |-> "", draws |-> <<>>, blocks |-> <<>>,
           context |-> [aspect_ratio |-> 0, scale |-> 0]]

\* IJEPA.__init__: the attributes set from the constructor's arguments
HParams == [m : MomentumValues,
            m_start_end : MomentumValues \X MomentumValues,
            M : 1..MaxM]

\* IJEPA.forward: the network's call under the mode flag md; M target blocks
\* cut with the one aspect ratio and the one scale it is handed
forward(md, tar, ts, car, cs) ==
    [mode |-> md,
     blocks |-> [i \in 1..hparams.M |-> [aspect_ratio |-> tar, scale |-> ts]],
     context |-> [aspect_ratio |-> car, scale |-> cs]]

Call(op, draws, out) ==
    [op |-> op, mode |-> out.mode, draws |-> draws, blocks |-> out.blocks,
     context |-> out.context]

\* variant: the two encoders' roles swapped in the moving average
update_momentum_swapped(mm, s, t) ==
    [i \in ParamIds |-> RAdd(RMul(mm, s[i]), RMul(RSub(One, mm), t[i]))]

\* IJEPA.update_momentum: teacher <- m*teacher + (1-m)*student, per parameter
update_momentum(mm, s, t) ==
    [i \in ParamIds |-> RAdd(RMul(mm, t[i]), RMul(RSub(One, mm), s[i]))]

\* variant: the context aspect ratio is drawn like the target's, not fixed
training_step_context_drawn ==
    /\ pc = "ready"
    /\ global_step < estimated_stepping_batches
    /\ \E tar \in Uniform(target_aspect_ratio), ts \in Uniform(target_scale),
          cs \in Uniform(context_scale) :
          last' = Call("training_step",
                       <<"target_aspect_ratio", "target_scale", "context_scale">>,
                       forward(mode, tar, ts, tar, cs))
    /\ pc' = "training_step"
    /\ order' = <<>>
    /\ UNCHANGED <<hparams, estimated_stepping_batches, m, student, teacher,
                   eval_mode, mode, global_step, last_epoch, grads, predicted>>
    /\ UNCHANGED datavars

\* IJEPA.training_step: three draws, one forward pass, the loss returned
training_step ==
    /\ pc = "ready"
    /\ global_step < estimated_stepping_batches
    /\ \E tar \in Uniform(target_aspect_ratio), ts \in Uniform(target_scale),
          cs \in Uniform(context_scale) :
          last' = Call("training_step",
                       <<"target_aspect_ratio", "target_scale", "context_scale">>,
                       forward(mode, tar, ts, context_aspect_ratio, cs))
    /\ pc' = "training_step"
    /\ order' = <<>>
    /\ UNCHANGED <<hparams, estimated_stepping_batches, m, student, teacher,
                   eval_mode, mode, global_step, last_epoch, grads, predicted>>
    /\ UNCHANGED datavars

\* the trainer backpropagates the loss training_step returned
backward ==
    /\ pc = "training_step"
    /\ \E g \in Grads :
          grads' = [grp \in Groups |-> IF grp \in GradTargets THEN g ELSE NoGrad]
    /\ pc' = "backward"
    /\ order' = Append(order, "backward")
    /\ last' = NoCall
    /\ UNCHANGED <<hparams, estimated_stepping_batches, m, student, teacher,
                   eval_mode, mode, global_step, last_epoch, predicted>>
    /\ UNCHANGED datavars

\* IJEPA.on_after_backward: the hook the trainer calls when backward returns
on_after_backward ==
    /\ pc = "backward"
    /\ teacher' = update_momentum(m, student, teacher)
    /\ eval_mode' = [grp \in Groups |-> TRUE]
    /\ m' = RAdd(m, RDivInt(RSub(hparams.m_start_end[2], hparams.m_start_end[1]),
                            estimated_stepping_batches))
    /\ pc' = "on_after_backward"
    /\ order' = Append(order, "update_momentum")
    /\ UNCHANGED <<hparams, estimated_stepping_batches, student, mode, global_step,
                   last_epoch, grads, last, predicted>>
    /\ UNCHANGED datavars

\* one parameter group under the optimizer's step: a group without a gradient
\* is skipped
Stepped(grp, p) ==
    IF grp \in OptimizerParams /\ grads[grp] # NoGrad
    THEN [i \in ParamIds |-> RSub(p[i], grads[grp])]
    ELSE p

\* the optimizer configure_optimizers returns takes its step
optimizer_step ==
    /\ pc = "on_after_backward"
    /\ student' = Stepped("student", student)
    /\ teacher' = Stepped("teacher", teacher)
    /\ grads' = NoGrads
    /\ global_step' = global_step + 1
    /\ pc' = "optimizer_step"
    /\ order' = Append(order, "optimizer_step")
    /\ UNCHANGED <<hparams, estimated_stepping_batches, m, eval_mode, mode,
                   last_epoch, last, predicted>>
    /\ UNCHANGED datavars

\* the OneCycleLR scheduler, interval "step", steps after the optimizer
scheduler_step ==
    /\ pc = "optimizer_step"
    /\ last_epoch' = last_epoch + 1
    /\ pc' = "ready"
    /\ order' = Append(order, "scheduler_step")
    /\ UNCHANGED <<hparams, estimated_stepping_batches, m, student, teacher,
                   eval_mode, mode, global_step, grads, last, predicted>>
    /\ UNCHANGED datavars

\* variant: the validation step also runs the momentum hook
validation_step_with_momentum ==
    /\ pc = "ready"
    /\ \E tar \in Uniform(target_aspect_ratio), ts \in Uniform(target_scale),
          cs \in Uniform(context_scale) :
          last' = Call("validation_step",
                       <<"target_aspect_ratio", "target_scale", "context_scale">>,
                       forward(mode, tar, ts, context_aspect_ratio, cs))
    /\ teacher' = update_momentum(m, student, teacher)
    /\ UNCHANGED <<hparams, estimated_stepping_batches, m, student,
                   eval_mode, mode, pc, global_step, last_epoch, grads, order,
                   predicted>>
    /\ UNCHANGED datavars

\* IJEPA.validation_step: three draws, one forward pass, the loss returned
validation_step ==
    /\ pc = "ready"
    /\ \E tar \in Uniform(target_aspect_ratio), ts \in Uniform(target_scale),
          cs \in Uniform(context_scale) :
          last' = Call("validation_step",
                       <<"target_aspect_ratio", "target_scale", "context_scale">>,
                       forward(mode, tar, ts, context_aspect_ratio, cs))
    /\ UNCHANGED <<hparams, estimated_stepping_batches, m, student, teacher,
                   eval_mode, mode, pc, global_step, last_epoch, grads, order,
                   predicted>>
    /\ UNCHANGED datavars

\* variant: the mode flag is put back once the prediction is made
predict_step_restoring ==
    /\ pc = "ready"
    /\ mode' = mode
    /\ \E tar \in Uniform(target_aspect_ratio), ts \in Uniform(target_scale) :
          last' = Call("predict_step", <<"target_aspect_ratio", "target_scale">>,
                       forward("test", tar, ts, context_aspect_ratio, 100))
    /\ predicted' = TRUE
    /\ UNCHANGED <<hparams, estimated_stepping_batches, m, student, teacher,
                   eval_mode, pc, global_step, last_epoch, grads, order>>
    /\ UNCHANGED datavars

\* IJEPA.predict_step: the mode flag is set, then the forward pass runs
predict_step ==
    /\ pc = "ready"
    /\ mode' = "test"
    /\ \E tar \in Uniform(target_aspect_ratio), ts \in Uniform(target_scale) :
          last' = Call("predict_step", <<"target_aspect_ratio", "target_scale">>,
                       forward(mode', tar, ts, context_aspect_ratio, 100))
    /\ predicted' = TRUE
    /\ UNCHANGED <<hparams, estimated_stepping_batches, m, student, teacher,
                   eval_mode, pc, global_step, last_epoch, grads, order>>
    /\ UNCHANGED datavars

(*************************** specifications ********************************)
\* a constructed model and trainer; the data module has been set up
Init ==
    /\ hparams \in HParams
    /\ estimated_stepping_batches \in 1..MaxSteps
    /\ m = hparams.m
    /\ student = InitStudent
    /\ teacher = InitTeacher
    /\ eval_mode = [grp \in Groups |-> FALSE]
    /\ mode = "train"
    /\ pc = "ready"
    /\ global_step = 0
    /\ last_epoch = 0
    /\ grads = NoGrads
    /\ order = <<>>
    /\ last = NoCall
    /\ predicted = FALSE
    /\ train_dataset_path = <<".jpeg">>
    /\ val_dataset_path = <<".jpeg">>
    /\ batch_size = 1
    /\ train_dataset = IJEPADataset(train_dataset_path)
    /\ val_dataset = IJEPADataset(val_dataset_path)
    /\ served = [train |-> 0, val |-> 0]

Next ==
    \/ training_step
    \/ backward
    \/ on_after_backward
    \/ optimizer_step
    \/ scheduler_step
    \/ validation_step
    \/ predict_step

Spec == Init /\ [][Next]_vars

\* a constructed data module, before setup
InitData ==
    /\ train_dataset_path \in Directories
    /\ val_dataset_path \in Directories
    /\ batch_size \in {1, 2}
    /\ train_dataset = None
    /\ val_dataset = None
    /\ served = [train |-> 0, val |-> 0]
    /\ hparams = [m |-> One, m_start_end |-> <<One, One>>, M |-> 1]
    /\ estimated_stepping_batches = 1
    /\ m = hparams.m
    /\ student = InitStudent
    /\ teacher = InitTeacher
    /\ eval_mode = [grp \in Groups |-> FALSE]
    /\ mode = "train"
    /\ pc = "ready"
    /\ global_step = 0
    /\ last_epoch = 0
    /\ grads = NoGrads
    /\ order = <<>>
    /\ last = NoCall
    /\ predicted = FALSE

NextData ==
    \/ setup
    \/ train_dataloader
    \/ val_dataloader

SpecData == InitData /\ [][NextData]_vars


(****************************** claims *************************************)
m_start == hparams.m_start_end[1]
m_end == hparams.m_start_end[2]

\* the amount on_after_backward adds to m
Increment == RDivInt(RSub(m_end, m_start), estimated_stepping_batches)

\* a step of the model that is a call of on_after_backward
IsMomentumStep == pc = "backward" /\ pc' = "on_after_backward"

\* C1: at the end of every training step the step's operations have run in
\* the order backward, optimizer step, scheduler step, momentum update.
C1_MomentumAfterScheduler ==
    (pc = "ready" /\ order # <<>>) =>
        order = <<"backward", "optimizer_step", "scheduler_step", "update_momentum">>

\* C2: once setup has run, a directory without a matching image has raised an
\* error, and no dataset that was returned has length 0.
C2_EmptyCorpusRaises ==
    train_dataset # None =>
        /\ load_images(train_dataset_path) = <<>> => train_dataset.error
        /\ load_images(val_dataset_path) = <<>> => val_dataset.error
        /\ ~train_dataset.error => DatasetLen(train_dataset) > 0
        /\ ~val_dataset.error => DatasetLen(val_dataset) > 0

\* C3: a step that changes a teacher parameter is a call of on_after_backward,
\* and the new value is m*teacher + (1-m)*student; no other step, the
\* optimizer's included, writes a teacher parameter.
C3_TeacherSingleWriter ==
    [][teacher' # teacher =>
          /\ IsMomentumStep
          /\ \A i \in ParamIds :
                teacher'[i] = RAdd(RMul(m, teacher[i]), RMul(RSub(One, m), student[i]))
      ]_vars

\* C3 witness: the optimizer, which holds the teacher's parameters, has taken
\* a step that moved the student and left the teacher at its averaged value.
C3_Witness ==
    /\ pc = "optimizer_step"
    /\ "teacher" \in OptimizerParams
    /\ student # InitStudent
    /\ teacher # InitTeacher
    /\ global_step >= 2

\* C4: m never decreases: in every step, m after is at least m before.
C4_MNonDecreasing == [][RLe(m, m')]_vars

\* C5: in every state m lies in [m_start, m_end].
C5_MInRange == RLe(m_start, m) /\ RLe(m, m_end)

\* C6: when the last planned training step has completed, m is within 1e-3
\* of m_end.
C6_MReachesEnd ==
    (pc = "ready" /\ global_step = estimated_stepping_batches) =>
        RLt(RAbs(RSub(m, m_end)), Rat(1, 1000))

\* C7: a call update_momentum(m) sets every teacher parameter to
\* m*teacher + (1-m)*student and leaves the student's alone; with m = 1 the
\* teacher is unchanged (and a second application changes nothing), with
\* m = 0 the teacher becomes the student.
C7_UpdateMomentumRule ==
    [][IsMomentumStep =>
          /\ student' = student
          /\ \A i \in ParamIds :
                teacher'[i] = RAdd(RMul(m, teacher[i]), RMul(RSub(One, m), student[i]))
          /\ m = One =>
                /\ teacher' = teacher
                /\ update_momentum(One, student', teacher') = teacher
          /\ m = Zero => teacher' = student
      ]_vars

\* C7 witness: update_momentum(0) has just replaced a teacher that differed
\* from the student.
C7_Witness ==
    /\ pc = "on_after_backward"
    /\ RSub(m, Increment) = Zero
    /\ teacher = student
    /\ teacher # InitTeacher

\* C7, second case reached: update_momentum(1) has just run on a teacher that
\* differs from the student.
C7_WitnessOne ==
    /\ pc = "on_after_backward"
    /\ RSub(m, Increment) = One
    /\ teacher # student

\* C8: a validation step leaves the teacher's parameters, the student's
\* parameters and m as they were.
C8_ValidationFrame ==
    [][last'.op = "validation_step" =>
          /\ teacher' = teacher
          /\ student' = student
          /\ m' = m
      ]_vars

\* C8 witness: a validation step has run between two training steps of a run
\* whose parameters and m have already moved.
C8_Witness ==
    /\ last.op = "validation_step"
    /\ 0 < global_step
    /\ global_step < estimated_stepping_batches
    /\ teacher # InitTeacher
    /\ student # InitStudent
    /\ m # hparams.m

Count(seq, x) == Cardinality({i \in DOMAIN seq : seq[i] = x})
InRange(x, range) == range[1] <= x /\ x <= range[2]

C10_ModeStaysTest ==
    predicted =>
        /\ mode = "test"
        /\ last.op \in {"training_step", "validation_step"} => last.mode = "test"

\* C10 witness: a training step has run its forward pass after a prediction.
C10_Witness ==
    /\ predicted
    /\ last.op = "training_step"
    /\ last.mode = "test"
    /\ global_step >= 1

====
